---- MODULE Spec2Model ----
(***************************************************************************)
(* Savings-goals view (src/src/GoalsView.svelte): the goals table, the     *)
(* account ledger, the view's reactive state, its async handlers at their  *)
(* await points, and the allocation / progress / pacing functions.         *)
(*                                                                         *)
(* Amounts are integers in tenths of a cent, so that the DECIMAL(15,2)     *)
(* columns of the goals table round. Percentages are multiples of 10 and   *)
(* balances whole cents, so balance * value / 100 is exact.                *)
(* Time is a clock of ticks, DayLength ticks to the day; a DATE is the     *)
(* tick of its midnight, a TIMESTAMP any tick.                             *)
(***************************************************************************)
EXTENDS Integers, Sequences, FiniteSets, TLC

VARIABLES
    table,          \* sys_plugin_goals: id -> row
    ledger,         \* accounts joined with their latest balance: account_id -> balance
    now,            \* the clock (CURRENT_TIMESTAMP, new Date())
    nextId,         \* how many ids crypto.randomUUID() has handed out
    loading,        \* let loading = $state(true)
    error,          \* let error = $state(null): None or <<message>>
    goals,          \* let goals = $state([])
    accounts,       \* let accounts = $state([])
    goalBalances,   \* let goalBalances = $state(new Map())
    showAddGoal,    \* let showAddGoal = $state(false)
    form,           \* newGoalName, newGoalTargetAmount, newGoalTargetDate, newGoalAllocations
    editingGoal,    \* let editingGoal = $state(null): None, or <<the goal object under edit>>
    toast,          \* the toast the last step showed: None or <<kind>>
    task,           \* the handler run in flight, at its await point
    limits,         \* what this run of the model allows: ids, ticks, the sdk calls that may
                    \* reject, initialize runs in flight besides the one in task
    background,     \* the handler runs in flight besides the one in task, each at its await
    fresh           \* history: the last write to goals, accounts or goalBalances
                    \* was calculateBalances' "goalBalances = balances"

vars == <<table, ledger, now, nextId, loading, error, goals, accounts,
          goalBalances, showAddGoal, form, editingGoal,
          toast, task, limits, background, fresh>>

world == <<table, ledger, now, nextId, limits, background>>
flags == <<loading, error>>
data == <<goals, accounts, goalBalances, fresh>>
modal == <<showAddGoal, form, editingGoal>>

----------------------------------------------------------------------------
(* Bounds of the model *)

MaxGoals == 1       \* createGoal runs that reach the INSERT
MaxTick == 2        \* the clock stops here

(* Program constants *)

Cent == 10          \* DECIMAL(15,2): the table keeps whole cents
DayLength == 2      \* 1000 * 60 * 60 * 24 ms, in ticks
DaysPerMonth == 30  \* const months = days / 30
Tolerance == 5      \* expectedProgress - 5

----------------------------------------------------------------------------
(* Values *)

None == <<>>
Some(x) == <<x>>

Min(a, b) == IF a <= b THEN a ELSE b

\* Math.min / Math.max
MathMin(a, b) == IF b < a THEN b ELSE a
MathMax(a, b) == IF b > a THEN b ELSE a

\* Math.ceil(a / b), b > 0
MathCeilDiv(a, b) == -((-a) \div b)

\* A JavaScript number that is not an integer: the exact quotient num / den, den > 0.
Rat(n, d) == [num |-> n, den |-> d]
RatLeq(x, y) == x.num * y.den <= y.num * x.den
RatEq(x, y) == x.num * y.den = y.num * x.den
RatMathMax(x, y) == IF RatLeq(y, x) THEN x ELSE y
RatMathMin(x, y) == IF RatLeq(x, y) THEN x ELSE y

\* The accounts the ledger may hold, in ORDER BY name order
AccountOrder == <<"a1", "a2">>

\* What the user types into the add-goal form: newGoalName, newGoalTargetAmount,
\* newGoalTargetDate and the rows of newGoalAllocations.

Percentage(acct, v) == [account_id |-> acct, allocation_type |-> "percentage", allocation_value |-> v]
Fixed(acct, v) == [account_id |-> acct, allocation_type |-> "fixed", allocation_value |-> v]

FormInput(n, amount, date, allocs) ==
    [name |-> n, target_amount |-> amount, target_date |-> date, allocations |-> allocs]

FormInputs ==
    { FormInput("n", 3000, None, <<Percentage("a1", 30), Fixed("a2", 500)>>),
      FormInput("n", 3000, Some(2), <<Fixed("a1", 5000)>>),
      FormInput("n", -1000, Some(0), <<>>),
      FormInput("", 3000, None, <<>>),
      FormInput("n", 0, None, <<Fixed("a1", 5000)>>) }

\* The ledgers a sync or import may leave: account_id -> balance
Ledgers ==
    { [a \in {"a1", "a2"} |-> IF a = "a1" THEN 4010 ELSE 1000],
      [a \in {"a1", "a2"} |-> IF a = "a1" THEN 0 ELSE 1000],
      [a \in {"a1"} |-> -2000] }

----------------------------------------------------------------------------
(* Allocation resolver: calculateBalances, and createGoal's copy of its loop *)

\* accounts.find((a) => a.account_id === id): the first match, or undefined
find(accts, id) ==
    LET hits == SelectSeq(accts, LAMBDA a : a.account_id = id)
    IN  IF Len(hits) = 0 THEN None ELSE Some(hits[1])

\* allocAmount with the fixed amount not capped at the balance
allocAmountUncapped(alloc, accts) ==
    LET account == find(accts, alloc.account_id)
    IN  IF account # None
        THEN IF alloc.allocation_type = "percentage"
             THEN (account[1].balance * alloc.allocation_value) \div 100
             ELSE alloc.allocation_value
        ELSE 0

\* allocAmount with a missing account taken to hold what the rule asks for
allocAmountNoAccountCheck(alloc, accts) ==
    LET account == find(accts, alloc.account_id)
    IN  IF account # None
        THEN IF alloc.allocation_type = "percentage"
             THEN (account[1].balance * alloc.allocation_value) \div 100
             ELSE MathMin(alloc.allocation_value, account[1].balance)
        ELSE alloc.allocation_value

\* One pass of calculateBalances' inner loop body: what alloc adds to total.
allocAmount(alloc, accts) ==
    LET account == find(accts, alloc.account_id)
    IN  IF account # None
        THEN IF alloc.allocation_type = "percentage"
             THEN (account[1].balance * alloc.allocation_value) \div 100
             ELSE MathMin(alloc.allocation_value, account[1].balance)
        ELSE 0

\* let total = 0; for (const alloc of goal.allocations) { ... total += ... }
RECURSIVE allocTotal(_, _)
allocTotal(allocs, accts) ==
    IF Len(allocs) = 0 THEN 0
    ELSE allocTotal(SubSeq(allocs, 1, Len(allocs) - 1), accts)
         + allocAmount(allocs[Len(allocs)], accts)

\* goal.allocations && goal.allocations.length > 0
hasAllocations(goal) == goal.allocations # None /\ Len(goal.allocations[1]) > 0

\* goalBalance that keeps the value a goal already has in goalBalances
goalBalanceSticky(goal, accts) ==
    IF goal.id \in DOMAIN goalBalances THEN goalBalances[goal.id]
    ELSE IF goal.allocations # None /\ Len(goal.allocations[1]) > 0
    THEN allocTotal(goal.allocations[1], accts)
    ELSE goal.starting_balance

\* goalBalance without the test for an empty list
goalBalanceAnyList(goal, accts) ==
    IF goal.allocations # None
    THEN allocTotal(goal.allocations[1], accts)
    ELSE goal.starting_balance

\* The value calculateBalances sets for one goal.
goalBalance(goal, accts) ==
    IF hasAllocations(goal)
    THEN allocTotal(goal.allocations[1], accts)
    ELSE goal.starting_balance

\* balancesOf that writes into the Map the view already holds
RECURSIVE balancesOfKept(_, _)
balancesOfKept(gs, accts) ==
    IF Len(gs) = 0 THEN goalBalances
    ELSE LET rest == balancesOfKept(SubSeq(gs, 1, Len(gs) - 1), accts)
             g == gs[Len(gs)]
         IN  [id \in (DOMAIN rest) \cup {g.id} |->
                 IF id = g.id THEN goalBalance(g, accts) ELSE rest[id]]

\* const balances = new Map(); for (const goal of goals) balances.set(goal.id, ...)
\* A later goal with the same id overwrites an earlier one.
RECURSIVE balancesOf(_, _)
balancesOf(gs, accts) ==
    IF Len(gs) = 0 THEN << >>
    ELSE LET rest == balancesOf(SubSeq(gs, 1, Len(gs) - 1), accts)
             g == gs[Len(gs)]
         IN  [id \in (DOMAIN rest) \cup {g.id} |->
                 IF id = g.id THEN goalBalance(g, accts) ELSE rest[id]]

\* createGoal's loop body over newGoalAllocations
newAllocAmount(alloc, accts) ==
    LET account == find(accts, alloc.account_id)
    IN  IF account # None
        THEN IF alloc.allocation_type = "percentage"
             THEN (account[1].balance * alloc.allocation_value) \div 100
             ELSE MathMin(alloc.allocation_value, account[1].balance)
        ELSE 0

\* let startingBalance = 0; for (const alloc of newGoalAllocations) { ... }
RECURSIVE startingBalanceOf(_, _)
startingBalanceOf(allocs, accts) ==
    IF Len(allocs) = 0 THEN 0
    ELSE startingBalanceOf(SubSeq(allocs, 1, Len(allocs) - 1), accts)
         + newAllocAmount(allocs[Len(allocs)], accts)

----------------------------------------------------------------------------
(* Progress calculator *)

\* goalBalances.get(goal.id): the entry, or undefined
balanceEntry(goal) ==
    IF goal.id \in DOMAIN goalBalances THEN Some(goalBalances[goal.id]) ELSE None

\* x || d for a number or undefined x: d when x is undefined or 0
OrElse(x, d) == IF x = None THEN d ELSE IF x[1] = 0 THEN d ELSE x[1]

\* getProgress without the clamp to [0, 100]
getProgressUnclamped(goal) ==
    LET current == OrElse(balanceEntry(goal), 0)
        saved == current - goal.starting_balance
        needed == goal.target_amount - goal.starting_balance
    IN  IF needed <= 0 THEN Rat(100, 1)
        ELSE Rat(saved * 100, needed)

\* getProgress with its early return only for needed = 0
getProgressNoEarlyReturn(goal) ==
    LET current == OrElse(balanceEntry(goal), 0)
        saved == current - goal.starting_balance
        needed == goal.target_amount - goal.starting_balance
        ratio == IF needed < 0 THEN Rat(-(saved * 100), -needed) ELSE Rat(saved * 100, needed)
    IN  IF needed = 0 THEN Rat(100, 1)
        ELSE RatMathMin(Rat(100, 1), RatMathMax(Rat(0, 1), ratio))

getProgress(goal) ==
    LET current == OrElse(balanceEntry(goal), 0)
        saved == current - goal.starting_balance
        needed == goal.target_amount - goal.starting_balance
    IN  IF needed <= 0 THEN Rat(100, 1)
        ELSE RatMathMin(Rat(100, 1), RatMathMax(Rat(0, 1), Rat(saved * 100, needed)))

getCurrentAmount(goal) == OrElse(balanceEntry(goal), goal.starting_balance)

\* getRemainingAmount without the floor at 0
getRemainingAmountUnfloored(goal) ==
    LET current == getCurrentAmount(goal)
    IN  goal.target_amount - current

getRemainingAmount(goal) ==
    LET current == getCurrentAmount(goal)
    IN  MathMax(0, goal.target_amount - current)

----------------------------------------------------------------------------
(* Pacing analyzer *)

\* Math.ceil((target - today) / day), or null without a target date
getDaysRemaining(goal) ==
    IF goal.target_date = None THEN None
    ELSE LET diff == goal.target_date[1] - now
         IN  Some(MathCeilDiv(diff, DayLength))

\* getMonthlyNeeded that returns null only for days < 0
getMonthlyNeededOnDueDay(goal) ==
    LET days == getDaysRemaining(goal)
    IN  IF days = None THEN None
        ELSE IF days[1] < 0 THEN None
        ELSE Some(Rat(getRemainingAmount(goal) * DaysPerMonth, days[1]))

getMonthlyNeeded(goal) ==
    LET days == getDaysRemaining(goal)
    IN  IF days = None THEN None
        ELSE IF days[1] <= 0 THEN None
        ELSE LET remaining == getRemainingAmount(goal)
             \* remaining / (days / 30)
             IN  Some(Rat(remaining * DaysPerMonth, days[1]))

\* expectedLessTolerance without the 5-point tolerance
expectedNoTolerance(total, days) ==
    LET elapsed == total - days * DayLength
    IN  IF total = 0
        THEN IF elapsed = 0 THEN [kind |-> "NaN"]
             ELSE IF elapsed > 0 THEN [kind |-> "Infinity"]
             ELSE [kind |-> "-Infinity"]
        ELSE IF total > 0
        THEN [kind |-> "finite", value |-> Rat(elapsed * 100, total)]
        ELSE [kind |-> "finite", value |-> Rat(-(elapsed * 100), -total)]

\* (elapsed / totalDays) * 100 - 5, in ticks: totalDays = total / DayLength,
\* elapsed = (total - days * DayLength) / DayLength. A zero totalDays divides by
\* zero: NaN when elapsed is 0 too, else an infinity of elapsed's sign.
expectedLessTolerance(total, days) ==
    LET elapsed == total - days * DayLength
    IN  IF total = 0
        THEN IF elapsed = 0 THEN [kind |-> "NaN"]
             ELSE IF elapsed > 0 THEN [kind |-> "Infinity"]
             ELSE [kind |-> "-Infinity"]
        ELSE IF total > 0
        THEN [kind |-> "finite", value |-> Rat(elapsed * 100 - Tolerance * total, total)]
        ELSE [kind |-> "finite", value |-> Rat(-(elapsed * 100 - Tolerance * total), -total)]

\* actual >= bound, as IEEE 754 compares
GreaterEq(actual, bound) ==
    CASE bound.kind = "NaN" -> FALSE
      [] bound.kind = "Infinity" -> FALSE
      [] bound.kind = "-Infinity" -> TRUE
      [] OTHER -> RatLeq(bound.value, actual)

\* isOnTrack that returns null once the target date is reached
isOnTrackNullWhenDue(goal) ==
    IF goal.target_date = None THEN None
    ELSE LET days == getDaysRemaining(goal)
         IN  IF days[1] <= 0 THEN None
             ELSE LET total == goal.target_date[1] - goal.created_at
                  IN  Some(GreaterEq(getProgress(goal), expectedLessTolerance(total, days[1])))

isOnTrack(goal) ==
    IF goal.target_date = None THEN None
    ELSE LET days == getDaysRemaining(goal)
         IN  IF days = None THEN None
             ELSE LET total == goal.target_date[1] - goal.created_at
                      actualProgress == getProgress(goal)
                  IN  Some(GreaterEq(actualProgress, expectedLessTolerance(total, days[1])))

----------------------------------------------------------------------------
(* Goal aggregator *)

\* activeGoals without the filter on completed
activeGoalsUnfiltered == goals

activeGoals == SelectSeq(goals, LAMBDA g : ~g.completed)
completedGoals == SelectSeq(goals, LAMBDA g : g.completed)

RECURSIVE reduceSaved(_)
reduceSaved(gs) ==
    IF Len(gs) = 0 THEN 0
    ELSE reduceSaved(SubSeq(gs, 1, Len(gs) - 1))
         + (getCurrentAmount(gs[Len(gs)]) - gs[Len(gs)].starting_balance)

RECURSIVE reduceTarget(_)
reduceTarget(gs) ==
    IF Len(gs) = 0 THEN 0
    ELSE reduceTarget(SubSeq(gs, 1, Len(gs) - 1))
         + (gs[Len(gs)].target_amount - gs[Len(gs)].starting_balance)

totalSaved == reduceSaved(activeGoals)
totalTarget == reduceTarget(activeGoals)

----------------------------------------------------------------------------
(* The database *)

\* A value stored in a DECIMAL(15,2) column: rounded to the cent
DbDecimal(x) ==
    IF x >= 0 THEN ((x + Cent \div 2) \div Cent) * Cent
    ELSE -((((-x) + Cent \div 2) \div Cent) * Cent)

\* The sequences that list each element of S once
Orderings(S) ==
    { s \in [1..Cardinality(S) -> S] : \A i, j \in 1..Cardinality(S) : i # j => s[i] # s[j] }

\* SELECT ... FROM sys_plugin_goals ORDER BY completed ASC, created_at DESC:
\* the rows in any order the ORDER BY allows
selectGoals(tbl) ==
    { [i \in 1..Len(s) |-> tbl[s[i]]] : s \in
        { o \in Orderings(DOMAIN tbl) :
            \A i, j \in 1..Len(o) : i < j =>
                \/ (~tbl[o[i]].completed /\ tbl[o[j]].completed)
                \/ (tbl[o[i]].completed = tbl[o[j]].completed
                    /\ tbl[o[i]].created_at >= tbl[o[j]].created_at) } }

\* SELECT a.account_id, ..., COALESCE(latest.balance, a.balance, 0) ... ORDER BY name
selectAccounts(ldg) ==
    LET present == SelectSeq(AccountOrder, LAMBDA a : a \in DOMAIN ldg)
    IN  [i \in 1..Len(present) |-> [account_id |-> present[i], balance |-> ldg[present[i]]]]

\* result.map((row) => ({ account_id: row[0], ..., balance: Number(row[2]) || 0, ... }))
accountsOf(result) ==
    [i \in 1..Len(result) |->
        [account_id |-> result[i].account_id, balance |-> OrElse(Some(result[i].balance), 0)]]

\* result.map((row) => ({ id: row[0], ..., completed: Boolean(row[9]), ... }))
goalsOf(result) ==
    [i \in 1..Len(result) |->
        [id |-> result[i].id,
         name |-> result[i].name,
         target_amount |-> OrElse(Some(result[i].target_amount), 0),
         target_date |-> result[i].target_date,
         allocations |-> result[i].allocations,
         starting_balance |-> OrElse(Some(result[i].starting_balance), 0),
         completed |-> result[i].completed,
         completed_at |-> result[i].completed_at,
         created_at |-> result[i].created_at]]

\* INSERT INTO sys_plugin_goals (id, name, target_amount, target_date, allocations,
\* starting_balance, icon, color) VALUES (...): the other columns take their defaults
insertedRow(id, f, startingBalance, at) ==
    [id |-> id,
     name |-> f.name,
     target_amount |-> DbDecimal(f.target_amount),
     target_date |-> f.target_date,
     allocations |-> IF Len(f.allocations) > 0 THEN Some(f.allocations) ELSE None,
     starting_balance |-> DbDecimal(startingBalance),
     completed |-> FALSE,
     completed_at |-> None,
     created_at |-> at]

----------------------------------------------------------------------------
(* The view *)

Idle == [op |-> "idle"]

emptyForm == FormInput("", 0, None, <<>>)

\* The view after construction, with what the model allows in lim
InitWith(lim) ==
    /\ table = << >>
    /\ ledger \in Ledgers
    /\ now = 0
    /\ nextId = 0
    /\ loading = TRUE
    /\ error = None
    /\ goals = << >>
    /\ accounts = << >>
    /\ goalBalances = << >>
    /\ showAddGoal = FALSE
    /\ form = emptyForm
    /\ editingGoal = None
    /\ toast = None
    \* $effect(() => { initialize(); }) has run initialize to its first await
    /\ task = [op |-> "initialize", pc |-> "ensureTablesExist"]
    /\ limits = lim
    /\ background = << >>
    /\ fresh = FALSE

Init == InitWith([goals |-> MaxGoals, ticks |-> MaxTick, rejecting |-> {"ensureTablesExist"}, overlap |-> 0])

\* The sdk call made by this step of a handler may reject.
mayReject(call) == call \in limits.rejecting

\* The step shows no toast.
noToast == toast' = None

\* {#if loading} ... {:else if error} ... {:else} the summary and the goal cards
contentShown == ~loading /\ error = None

\* {#if showAddGoal} or {#if editingGoal}: a modal backdrop covers the page
modalShown == showAddGoal \/ editingGoal # None

\* initialize(), to its first await: loading = true; error = null; ensureTablesExist()
initializeCalled ==
    /\ loading' = TRUE
    /\ error' = None
    /\ task' = [op |-> "initialize", pc |-> "ensureTablesExist"]

\* The clock advances.
Tick ==
    /\ task = Idle /\ ~modalShown
    /\ now < limits.ticks
    /\ now' = now + 1
    /\ noToast
    /\ UNCHANGED <<table, ledger, nextId, limits, background, flags, data, modal, task>>

\* A sync or import changes the ledger, and the host calls the onDataRefresh
\* callback, which calls initialize().
DataRefresh ==
    /\ ~modalShown
    /\ task = Idle \/ Len(background) < limits.overlap
    /\ background' = IF task = Idle THEN background ELSE Append(background, task)
    /\ \E l \in Ledgers : l # ledger /\ ledger' = l
    /\ initializeCalled
    /\ noToast
    /\ UNCHANGED <<table, now, nextId, limits, data, modal>>

\* <button onclick={() => initialize()}>Retry</button>
Retry ==
    /\ task = Idle
    /\ ~loading /\ error # None /\ ~modalShown
    /\ initializeCalled
    /\ noToast
    /\ UNCHANGED <<world, data, modal>>

\* initialize's catch and finally
initializeFailed ==
    /\ error' = Some("Failed to initialize")
    /\ loading' = FALSE

\* A handler at "await loadGoals()" (initialize: at its Promise.all)
loadingTask(op, accountsState) ==
    [op |-> op, pc |-> "load",
     accountsQuery |-> [state |-> accountsState],
     goalsQuery |-> [state |-> "sent"]]

\* await ensureTablesExist() returns, and Promise.all([loadAccounts(), loadGoals()])
\* sends both queries; or sdk.execute rejects.
EnsureTablesExist ==
    /\ task.op = "initialize" /\ task.pc = "ensureTablesExist"
    /\ \/ /\ task' = loadingTask("initialize", "sent")
          /\ UNCHANGED <<flags>>
       \/ /\ mayReject("ensureTablesExist")
          /\ initializeFailed
          /\ task' = Idle
    /\ noToast
    /\ UNCHANGED <<world, data, modal>>

\* The database answers loadAccounts' query, or the query fails.
LoadAccountsQuery ==
    /\ task.op # "idle" /\ task.pc = "load" /\ task.accountsQuery.state = "sent"
    /\ \/ /\ task' = [task EXCEPT !.accountsQuery =
                         [state |-> "result", rows |-> selectAccounts(ledger)]]
       \/ /\ mayReject("loadAccounts")
          /\ task' = [task EXCEPT !.accountsQuery = [state |-> "rejected"]]
    /\ noToast
    /\ UNCHANGED <<world, flags, data, modal>>

\* The database answers loadGoals' query, or the query fails.
LoadGoalsQuery ==
    /\ task.op # "idle" /\ task.pc = "load" /\ task.goalsQuery.state = "sent"
    /\ \/ /\ \E rows \in selectGoals(table) :
               task' = [task EXCEPT !.goalsQuery = [state |-> "result", rows |-> rows]]
       \/ /\ mayReject("loadGoals")
          /\ task' = [task EXCEPT !.goalsQuery = [state |-> "rejected"]]
    /\ noToast
    /\ UNCHANGED <<world, flags, data, modal>>

\* Where a handler stands once a load of t has settled: initialize goes on to
\* calculateBalances when both loads are done, ends when one failed and the other
\* has settled; createGoal and updateGoal go on to calculateBalances; the others end.
afterLoad(t) ==
    LET a == t.accountsQuery.state
        g == t.goalsQuery.state
    IN  IF t.op = "initialize"
        THEN IF a = "done" /\ g = "done" THEN [op |-> "initialize", pc |-> "calculateBalances"]
             ELSE IF a \in {"done", "failed"} /\ g \in {"done", "failed"} THEN Idle
             ELSE t
        ELSE IF g = "failed" THEN Idle
        ELSE IF t.op \in {"createGoal", "updateGoal"} THEN [op |-> t.op, pc |-> "calculateBalances"]
        ELSE Idle

\* Promise.all has already rejected: initialize's catch and finally have run.
rejectedBefore(t) ==
    t.accountsQuery.state = "failed" \/ t.goalsQuery.state = "failed"

\* loadAccounts resumes after its await: accounts = result.map(...), or it throws.
loadAccounts ==
    /\ task.op # "idle" /\ task.pc = "load"
    /\ \/ /\ task.accountsQuery.state = "result"
          /\ accounts' = accountsOf(task.accountsQuery.rows)
          /\ fresh' = FALSE
          /\ task' = afterLoad([task EXCEPT !.accountsQuery = [state |-> "done"]])
          /\ UNCHANGED flags
       \/ /\ task.accountsQuery.state = "rejected"
          /\ IF rejectedBefore(task) THEN UNCHANGED flags ELSE initializeFailed
          /\ task' = afterLoad([task EXCEPT !.accountsQuery = [state |-> "failed"]])
          /\ UNCHANGED <<accounts, fresh>>
    /\ noToast
    /\ UNCHANGED <<world, goals, goalBalances, modal>>

\* editingGoal holds a reference to an element of goals (onclick: editingGoal =
\* goal), modelled as [index |-> i]; once goals has been replaced by a new array
\* the reference is to an object no longer in goals, modelled as [goal |-> object].
editedGoal(ref, gs) == IF "index" \in DOMAIN ref[1] THEN gs[ref[1].index] ELSE ref[1].goal

detached(ref, gs) == IF ref = None THEN None ELSE Some([goal |-> editedGoal(ref, gs)])

\* loadGoals resumes after its await: goals = result.map(...), or it throws.
loadGoals ==
    /\ task.op # "idle" /\ task.pc = "load"
    /\ \/ /\ task.goalsQuery.state = "result"
          /\ goals' = goalsOf(task.goalsQuery.rows)
          /\ editingGoal' = detached(editingGoal, goals)
          /\ fresh' = FALSE
          /\ task' = afterLoad([task EXCEPT !.goalsQuery = [state |-> "done"]])
          /\ UNCHANGED flags
       \/ /\ task.goalsQuery.state = "rejected"
          /\ IF task.op = "initialize" /\ ~rejectedBefore(task)
             THEN initializeFailed
             ELSE UNCHANGED flags
          /\ task' = afterLoad([task EXCEPT !.goalsQuery = [state |-> "failed"]])
          /\ UNCHANGED <<goals, editingGoal, fresh>>
    /\ noToast
    /\ UNCHANGED <<world, accounts, goalBalances, showAddGoal, form>>

\* calculateBalances(): goalBalances = balances. In initialize the finally block
\* follows after the await; createGoal and updateGoal end here.
calculateBalances ==
    /\ task.op # "idle" /\ task.pc = "calculateBalances"
    /\ goalBalances' = balancesOf(goals, accounts)
    /\ fresh' = TRUE
    /\ task' = IF task.op = "initialize" THEN [op |-> "initialize", pc |-> "finally"] ELSE Idle
    /\ noToast
    /\ UNCHANGED <<world, flags, goals, accounts, modal>>

\* initialize's finally block after a run without an error: loading = false
InitializeFinally ==
    /\ task.op = "initialize" /\ task.pc = "finally"
    /\ loading' = FALSE
    /\ task' = Idle
    /\ noToast
    /\ UNCHANGED <<world, error, data, modal>>

\* Of the runs in flight, another one is the next to resume: it takes the place
\* of the one in task, which waits at its await. No state of the view changes.
Resume ==
    /\ \E i \in 1..Len(background) :
        /\ task' = background[i]
        /\ background' = IF task = Idle
                          THEN [j \in 1..(Len(background) - 1) |->
                                   IF j < i THEN background[j] ELSE background[j + 1]]
                          ELSE [background EXCEPT ![i] = task]
    /\ UNCHANGED <<table, ledger, now, nextId, limits, flags, data, modal, toast>>

----------------------------------------------------------------------------
(* The add-goal modal and createGoal *)

\* <button onclick={() => (showAddGoal = true)}>+ New Goal</button>
OpenAddGoal ==
    /\ task = Idle
    /\ ~modalShown
    /\ showAddGoal' = TRUE
    /\ noToast
    /\ UNCHANGED <<world, flags, data, form, editingGoal, task>>

\* The user fills the fields bound to newGoalName, newGoalTargetAmount,
\* newGoalTargetDate and newGoalAllocations.
FillForm ==
    /\ task = Idle
    /\ showAddGoal
    /\ \E f \in FormInputs : f # form /\ form' = f
    /\ noToast
    /\ UNCHANGED <<world, flags, data, showAddGoal, editingGoal, task>>

\* Cancel: showAddGoal = false; resetForm()
CancelAddGoal ==
    /\ task = Idle
    /\ showAddGoal
    /\ showAddGoal' = FALSE
    /\ form' = emptyForm
    /\ noToast
    /\ UNCHANGED <<world, flags, data, editingGoal, task>>

\* createGoal's guard with the test of the name alone
formRejectedNameOnly(f) == f.name = ""

\* !newGoalName || !newGoalTargetAmount
formRejected(f) == f.name = "" \/ f.target_amount = 0

\* createGoal, to its first await: the guard, the id, the starting balance, and the
\* INSERT statement handed to sdk.execute.
createGoal ==
    /\ task = Idle
    /\ showAddGoal
    /\ IF formRejected(form)
       THEN /\ toast' = Some("error")
            /\ UNCHANGED <<nextId, task>>
       ELSE /\ nextId < limits.goals
            /\ nextId' = nextId + 1
            /\ task' = [op |-> "createGoal", pc |-> "execute",
                        id |-> nextId + 1,
                        values |-> form,
                        startingBalance |-> startingBalanceOf(form.allocations, accounts)]
            /\ noToast
    /\ UNCHANGED <<table, ledger, now, limits, background, flags, data, modal>>

\* The database runs the INSERT and createGoal resumes: the success toast,
\* showAddGoal = false, resetForm(), and loadGoals() sends its query; or
\* sdk.execute rejects and createGoal ends there.
createGoalInsert ==
    /\ task.op = "createGoal" /\ task.pc = "execute"
    /\ \/ /\ table' = [id \in (DOMAIN table) \cup {task.id} |->
                          IF id = task.id
                          THEN insertedRow(task.id, task.values, task.startingBalance, now)
                          ELSE table[id]]
          /\ toast' = Some("success")
          /\ showAddGoal' = FALSE
          /\ form' = emptyForm
          /\ UNCHANGED editingGoal
          /\ task' = loadingTask("createGoal", "none")
       \/ /\ mayReject("createGoal")
          /\ task' = Idle
          /\ UNCHANGED <<table, modal>> /\ noToast
    /\ UNCHANGED <<ledger, now, nextId, limits, background, flags, data>>

----------------------------------------------------------------------------
(* The goal cards: deleteGoal, markComplete, reopenGoal *)

\* A button of the goal list can be clicked: the list is rendered and no modal
\* backdrop covers it.
cardsShown == contentShown /\ ~modalShown

\* The Mark Complete button shown on every active goal
markCompleteOfferedAlways(goal) == ~goal.completed

\* {#if progress >= 100} <button onclick={() => markComplete(goal)}>
markCompleteOffered(goal) == ~goal.completed /\ RatLeq(Rat(100, 1), getProgress(goal))

\* A click on a card's button, to the handler's first await: the statement is
\* handed to sdk.execute.
deleteGoal ==
    /\ task = Idle /\ cardsShown
    /\ \E i \in 1..Len(goals) :
        task' = [op |-> "deleteGoal", pc |-> "execute", id |-> goals[i].id]
    /\ noToast
    /\ UNCHANGED <<world, flags, data, modal>>

markComplete ==
    /\ task = Idle /\ cardsShown
    /\ \E i \in 1..Len(goals) :
        /\ markCompleteOffered(goals[i])
        /\ task' = [op |-> "markComplete", pc |-> "execute", id |-> goals[i].id]
    /\ noToast
    /\ UNCHANGED <<world, flags, data, modal>>

reopenGoal ==
    /\ task = Idle /\ cardsShown
    /\ \E i \in 1..Len(goals) :
        /\ goals[i].completed
        /\ task' = [op |-> "reopenGoal", pc |-> "execute", id |-> goals[i].id]
    /\ noToast
    /\ UNCHANGED <<world, flags, data, modal>>

\* DELETE FROM sys_plugin_goals WHERE id = ...
deletedFrom(tbl, id) == [k \in (DOMAIN tbl) \ {id} |-> tbl[k]]

\* UPDATE sys_plugin_goals SET completed = TRUE, completed_at = CURRENT_TIMESTAMP,
\* updated_at = CURRENT_TIMESTAMP WHERE id = ...
markedComplete(tbl, id, at) ==
    [k \in DOMAIN tbl |->
        IF k = id THEN [tbl[k] EXCEPT !.completed = TRUE, !.completed_at = Some(at)]
        ELSE tbl[k]]

\* An UPDATE that clears completed and keeps completed_at
reopenedKeepingTime(tbl, id) ==
    [k \in DOMAIN tbl |->
        IF k = id THEN [tbl[k] EXCEPT !.completed = FALSE] ELSE tbl[k]]

\* UPDATE sys_plugin_goals SET completed = FALSE, completed_at = NULL,
\* updated_at = CURRENT_TIMESTAMP WHERE id = ...
reopened(tbl, id) ==
    [k \in DOMAIN tbl |->
        IF k = id THEN [tbl[k] EXCEPT !.completed = FALSE, !.completed_at = None]
        ELSE tbl[k]]

\* The database runs the handler's statement and the handler resumes: its toast,
\* and loadGoals() sends its query; or sdk.execute rejects and the handler ends.
cardExecute ==
    /\ task.op \in {"deleteGoal", "markComplete", "reopenGoal"} /\ task.pc = "execute"
    /\ \/ /\ table' = CASE task.op = "deleteGoal" -> deletedFrom(table, task.id)
                        [] task.op = "markComplete" -> markedComplete(table, task.id, now)
                        [] OTHER -> reopened(table, task.id)
          /\ toast' = IF task.op = "reopenGoal" THEN None ELSE Some("success")
          /\ task' = loadingTask(task.op, "none")
       \/ /\ mayReject(task.op)
          /\ task' = Idle
          /\ UNCHANGED table /\ noToast
    /\ UNCHANGED <<ledger, now, nextId, limits, background, flags, data, modal>>

----------------------------------------------------------------------------
(* The edit modal and updateGoal *)

\* The values typed into the edit modal's Target Amount field
EditTargetAmounts == {1000, 3000}

\* <button onclick={() => (editingGoal = goal)} title="Edit"> on an active goal's card
OpenEdit ==
    /\ task = Idle /\ cardsShown
    /\ \E i \in 1..Len(goals) :
        /\ ~goals[i].completed
        /\ editingGoal' = Some([index |-> i])
    /\ noToast
    /\ UNCHANGED <<world, flags, data, showAddGoal, form, task>>

\* An assignment to the object under edit: it changes the element of goals that
\* editingGoal refers to, or the object alone once it is no longer in goals.
assignEdited(changed) ==
    IF "index" \in DOMAIN editingGoal[1]
    THEN /\ goals' = [goals EXCEPT ![editingGoal[1].index] = changed]
         /\ fresh' = FALSE
         /\ UNCHANGED editingGoal
    ELSE /\ editingGoal' = Some([goal |-> changed])
         /\ UNCHANGED <<goals, fresh>>

\* <input type="number" bind:value={editingGoal.target_amount}>
EditTargetAmount ==
    /\ task = Idle /\ editingGoal # None
    /\ \E v \in EditTargetAmounts :
        /\ v # editedGoal(editingGoal, goals).target_amount
        /\ assignEdited([editedGoal(editingGoal, goals) EXCEPT !.target_amount = v])
    /\ noToast
    /\ UNCHANGED <<world, flags, accounts, goalBalances, showAddGoal, form, task>>

\* addEditAllocation(editingGoal)
addEditAllocation ==
    /\ task = Idle /\ editingGoal # None
    /\ LET goal == editedGoal(editingGoal, goals)
           allocations == IF goal.allocations = None THEN << >> ELSE goal.allocations[1]
           usedIds == { allocations[j].account_id : j \in 1..Len(allocations) }
           available == SelectSeq(accounts, LAMBDA a : a.account_id \notin usedIds)
       IN  IF available = << >>
           THEN /\ toast' = Some("warning")
                /\ assignEdited([goal EXCEPT !.allocations = Some(allocations)])
           ELSE /\ noToast
                /\ assignEdited([goal EXCEPT !.allocations =
                       Some(Append(allocations, Percentage(available[1].account_id, 100)))])
    /\ UNCHANGED <<world, flags, accounts, goalBalances, showAddGoal, form, task>>

\* allocations.filter((_, i) => i !== index)
filterIndex(allocations, index) ==
    [j \in 1..(Len(allocations) - 1) |->
        IF j < index THEN allocations[j] ELSE allocations[j + 1]]

\* removeEditAllocation(editingGoal, i): the button of a listed rule
removeEditAllocation ==
    /\ task = Idle /\ editingGoal # None
    /\ LET goal == editedGoal(editingGoal, goals)
       IN  /\ goal.allocations # None
           /\ \E index \in 1..Len(goal.allocations[1]) :
               assignEdited([goal EXCEPT !.allocations =
                                 Some(filterIndex(goal.allocations[1], index))])
    /\ noToast
    /\ UNCHANGED <<world, flags, accounts, goalBalances, showAddGoal, form, task>>

\* Cancel, or a click on the backdrop: editingGoal = null
CancelEdit ==
    /\ task = Idle /\ editingGoal # None
    /\ editingGoal' = None
    /\ noToast
    /\ UNCHANGED <<world, flags, data, showAddGoal, form, task>>

\* Save Changes: updateGoal(editingGoal), to its await: the UPDATE statement is
\* handed to sdk.execute.
updateGoal ==
    /\ task = Idle /\ editingGoal # None
    /\ LET goal == editedGoal(editingGoal, goals)
       IN  task' = [op |-> "updateGoal", pc |-> "execute", id |-> goal.id,
                    values |-> [name |-> goal.name,
                                target_amount |-> goal.target_amount,
                                target_date |-> goal.target_date,
                                allocations |-> goal.allocations]]
    /\ noToast
    /\ UNCHANGED <<world, flags, data, modal>>

\* An UPDATE that also sets starting_balance to 0 when the rules are removed
updatedWithBaseline(tbl, id, values) ==
    [k \in DOMAIN tbl |->
        IF k = id
        THEN [tbl[k] EXCEPT !.name = values.name,
                            !.target_amount = DbDecimal(values.target_amount),
                            !.target_date = values.target_date,
                            !.allocations = values.allocations,
                            !.starting_balance =
                                IF values.allocations = Some(<< >>) THEN 0 ELSE @]
        ELSE tbl[k]]

\* UPDATE sys_plugin_goals SET name, target_amount, target_date, allocations, icon,
\* color, updated_at WHERE id = ...
updated(tbl, id, values) ==
    [k \in DOMAIN tbl |->
        IF k = id
        THEN [tbl[k] EXCEPT !.name = values.name,
                            !.target_amount = DbDecimal(values.target_amount),
                            !.target_date = values.target_date,
                            !.allocations = values.allocations]
        ELSE tbl[k]]

\* The database runs the UPDATE and updateGoal resumes: the toast, editingGoal =
\* null, and loadGoals() sends its query; or sdk.execute rejects and updateGoal
\* ends there.
updateGoalExecute ==
    /\ task.op = "updateGoal" /\ task.pc = "execute"
    /\ \/ /\ table' = updated(table, task.id, task.values)
          /\ toast' = Some("success")
          /\ editingGoal' = None
          /\ task' = loadingTask("updateGoal", "none")
       \/ /\ mayReject("updateGoal")
          /\ task' = Idle
          /\ UNCHANGED <<table, editingGoal>> /\ noToast
    /\ UNCHANGED <<ledger, now, nextId, limits, background, flags, data, showAddGoal, form>>

----------------------------------------------------------------------------
(* The specification *)

Next ==
    \/ Tick
    \/ DataRefresh
    \/ Retry
    \/ EnsureTablesExist
    \/ LoadAccountsQuery
    \/ LoadGoalsQuery
    \/ loadAccounts
    \/ loadGoals
    \/ calculateBalances
    \/ InitializeFinally
    \/ OpenAddGoal
    \/ FillForm
    \/ CancelAddGoal
    \/ createGoal
    \/ createGoalInsert
    \/ deleteGoal
    \/ markComplete
    \/ reopenGoal
    \/ cardExecute

Spec == Init /\ [][Next]_vars

\* The view with its edit modal
MaxEditGoals == 1
MaxEditTick == 1

InitEdit == InitWith([goals |-> MaxEditGoals, ticks |-> MaxEditTick, rejecting |-> {"ensureTablesExist"}, overlap |-> 0])

NextEdit ==
    \/ Tick
    \/ DataRefresh
    \/ Retry
    \/ EnsureTablesExist
    \/ LoadAccountsQuery
    \/ LoadGoalsQuery
    \/ loadAccounts
    \/ loadGoals
    \/ calculateBalances
    \/ InitializeFinally
    \/ OpenAddGoal
    \/ FillForm
    \/ CancelAddGoal
    \/ createGoal
    \/ createGoalInsert
    \/ deleteGoal
    \/ markComplete
    \/ reopenGoal
    \/ cardExecute
    \/ OpenEdit
    \/ EditTargetAmount
    \/ addEditAllocation
    \/ removeEditAllocation
    \/ CancelEdit
    \/ updateGoal
    \/ updateGoalExecute

SpecEdit == InitEdit /\ [][NextEdit]_vars

\* The view with two goals, at one instant and with no failing call
MaxPairGoals == 2

InitPair == InitWith([goals |-> MaxPairGoals, ticks |-> 0, rejecting |-> {}, overlap |-> 0])

NextPair ==
    \/ DataRefresh
    \/ EnsureTablesExist
    \/ LoadAccountsQuery
    \/ LoadGoalsQuery
    \/ loadAccounts
    \/ loadGoals
    \/ calculateBalances
    \/ InitializeFinally
    \/ OpenAddGoal
    \/ FillForm
    \/ CancelAddGoal
    \/ createGoal
    \/ createGoalInsert
    \/ deleteGoal
    \/ markComplete
    \/ reopenGoal
    \/ cardExecute

SpecPair == InitPair /\ [][NextPair]_vars

\* The view with initialize runs that overlap, none of them failing
MaxOverlap == 1

InitOverlap == InitWith([goals |-> 1, ticks |-> 0, rejecting |-> {}, overlap |-> MaxOverlap])

NextOverlap ==
    \/ DataRefresh
    \/ Resume
    \/ EnsureTablesExist
    \/ LoadAccountsQuery
    \/ LoadGoalsQuery
    \/ loadAccounts
    \/ loadGoals
    \/ calculateBalances
    \/ InitializeFinally
    \/ OpenAddGoal
    \/ FillForm
    \/ CancelAddGoal
    \/ createGoal
    \/ createGoalInsert

SpecOverlap == InitOverlap /\ [][NextOverlap]_vars

\* The view with overlapping initialize runs and the buttons of the goal cards
NextRace ==
    \/ NextOverlap
    \/ deleteGoal
    \/ markComplete
    \/ reopenGoal
    \/ cardExecute

SpecRace == InitOverlap /\ [][NextRace]_vars

\* Two goals and the edit modal's allocation rules, with the accounts unchanged
NextPairEdit ==
    \/ EnsureTablesExist
    \/ LoadAccountsQuery
    \/ LoadGoalsQuery
    \/ loadAccounts
    \/ loadGoals
    \/ calculateBalances
    \/ InitializeFinally
    \/ OpenAddGoal
    \/ FillForm
    \/ CancelAddGoal
    \/ createGoal
    \/ createGoalInsert
    \/ OpenEdit
    \/ addEditAllocation
    \/ removeEditAllocation
    \/ CancelEdit
    \/ updateGoal
    \/ updateGoalExecute

SpecPairEdit == InitPair /\ [][NextPairEdit]_vars

----------------------------------------------------------------------------
(* Properties *)

\* The goals the view holds
Goals == { goals[i] : i \in 1..Len(goals) }

\* The rules of a goal ({} for a goal without a list)
rulesOf(goal) ==
    IF goal.allocations = None THEN {}
    ELSE { goal.allocations[1][j] : j \in 1..Len(goal.allocations[1]) }

\* The account an allocation rule names is among accts
accountExists(alloc, accts) == \E i \in 1..Len(accts) : accts[i].account_id = alloc.account_id

\* The balance of the account an allocation rule names
balanceFor(alloc, accts) ==
    LET i == CHOOSE k \in 1..Len(accts) :
                 /\ accts[k].account_id = alloc.account_id
                 /\ \A j \in 1..(k - 1) : accts[j].account_id # alloc.account_id
    IN  accts[i].balance

\* What the specification gives one rule: balance * value / 100 for a percentage
\* rule, min(value, balance) for a fixed rule, nothing for a missing account.
expectedContribution(alloc, accts) ==
    IF ~accountExists(alloc, accts) THEN 0
    ELSE IF alloc.allocation_type = "percentage"
    THEN (balanceFor(alloc, accts) * alloc.allocation_value) \div 100
    ELSE Min(alloc.allocation_value, balanceFor(alloc, accts))

RECURSIVE expectedSum(_, _)
expectedSum(allocs, accts) ==
    IF allocs = << >> THEN 0
    ELSE expectedContribution(Head(allocs), accts) + expectedSum(Tail(allocs), accts)

\* C1: once calculateBalances has run on the goals and accounts the view holds,
\* the current amount of every goal with at least one allocation rule is the sum,
\* over its rules whose account exists, of balance * value / 100 (percentage) or
\* min(value, balance) (fixed), also when that sum is 0.
C1_CurrentAmountIsRuleSum ==
    fresh =>
        \A goal \in Goals :
            hasAllocations(goal) =>
                getCurrentAmount(goal) = expectedSum(goal.allocations[1], accounts)

\* C2: once calculateBalances has run on the goals and accounts the view holds,
\* every goal whose allocations are null or an empty list has exactly its
\* starting_balance recorded as its balance, and getCurrentAmount returns it.
C2_ManualGoalKeepsStartingBalance ==
    fresh =>
        \A goal \in Goals :
            (goal.allocations = None \/ goal.allocations = Some(<< >>)) =>
                /\ goal.id \in DOMAIN goalBalances
                /\ goalBalances[goal.id] = goal.starting_balance
                /\ getCurrentAmount(goal) = goal.starting_balance

\* calculateBalances has run on a goal with an empty allocations list and a
\* starting_balance other than 0, while an account holds a balance.
C2_Witness ==
    /\ fresh
    /\ \E goal \in Goals :
        /\ goal.allocations = Some(<< >>)
        /\ goal.starting_balance # 0
        /\ goalBalances[goal.id] = goal.starting_balance
        /\ \E i \in 1..Len(accounts) : accounts[i].balance # 0

\* C3: a fixed rule whose account exists never adds more than that account's
\* balance, in calculateBalances and in createGoal's starting balance.
C3_FixedNeverExceedsBalance ==
    /\ \A goal \in Goals : \A alloc \in rulesOf(goal) :
        (alloc.allocation_type = "fixed" /\ accountExists(alloc, accounts)) =>
            /\ allocAmount(alloc, accounts) <= balanceFor(alloc, accounts)
            /\ (fresh /\ Len(goal.allocations[1]) = 1) =>
                   goalBalances[goal.id] <= balanceFor(alloc, accounts)
    /\ \A j \in 1..Len(form.allocations) :
        LET alloc == form.allocations[j]
        IN  (alloc.allocation_type = "fixed" /\ accountExists(alloc, accounts)) =>
                newAllocAmount(alloc, accounts) <= balanceFor(alloc, accounts)
    /\ (task.op = "createGoal" /\ task.pc = "execute" /\ Len(task.values.allocations) = 1) =>
        LET alloc == task.values.allocations[1]
        IN  (alloc.allocation_type = "fixed" /\ accountExists(alloc, accounts)) =>
                task.startingBalance <= balanceFor(alloc, accounts)

\* A goal has a fixed rule that asks for more than its account holds, and the
\* recomputed balance is the account's balance.
C3_Witness ==
    /\ fresh
    /\ \E goal \in Goals : \E alloc \in rulesOf(goal) :
        /\ Len(goal.allocations[1]) = 1
        /\ alloc.allocation_type = "fixed"
        /\ accountExists(alloc, accounts)
        /\ alloc.allocation_value > balanceFor(alloc, accounts)
        /\ balanceFor(alloc, accounts) < 0
        /\ goalBalances[goal.id] = balanceFor(alloc, accounts)

\* C4: a rule whose account is not among the accounts adds nothing and raises no
\* error: after calculateBalances the goal's balance is the sum of its other
\* rules' contributions, and an initialize run that reached calculateBalances has
\* set no error.
C4_MissingAccountContributesZero ==
    /\ fresh =>
        \A goal \in Goals :
            hasAllocations(goal) =>
                /\ goal.id \in DOMAIN goalBalances
                /\ goalBalances[goal.id] =
                       allocTotal(SelectSeq(goal.allocations[1],
                                            LAMBDA alloc : accountExists(alloc, accounts)),
                                  accounts)
    /\ \A goal \in Goals : \A alloc \in rulesOf(goal) :
        ~accountExists(alloc, accounts) => allocAmount(alloc, accounts) = 0
    /\ (task.op = "initialize" /\ task.pc = "finally") => error = None

\* calculateBalances has run on a goal with a rule on a missing account and a rule
\* on an account that adds something.
C4_Witness ==
    /\ fresh
    /\ error = None
    /\ \E goal \in Goals : \E missing, other \in rulesOf(goal) :
        /\ ~accountExists(missing, accounts)
        /\ missing.allocation_value # 0
        /\ accountExists(other, accounts)
        /\ goalBalances[goal.id] = allocAmount(other, accounts)
        /\ goalBalances[goal.id] # 0

\* C5: getProgress of every goal the view holds is between 0 and 100.
C5_ProgressInRange ==
    \A goal \in Goals :
        LET p == getProgress(goal)
        IN  /\ p.den > 0
            /\ RatLeq(Rat(0, 1), p)
            /\ RatLeq(p, Rat(100, 1))

\* A goal whose recorded balance is above its target: the share saved is over
\* 100 % and getProgress reports 100.
C5_Witness ==
    \E goal \in Goals :
        /\ goal.target_amount > goal.starting_balance
        /\ goal.id \in DOMAIN goalBalances
        /\ goalBalances[goal.id] > goal.target_amount
        /\ getProgress(goal) = Rat(100, 1)

\* What C6 expects of getProgress: 100 when target - starting <= 0, else
\* clamp((c - starting) / (target - starting) * 100, 0, 100), c = getCurrentAmount
expectedProgress(goal) ==
    LET c == getCurrentAmount(goal)
        needed == goal.target_amount - goal.starting_balance
        raw == Rat((c - goal.starting_balance) * 100, needed)
    IN  IF needed <= 0 THEN Rat(100, 1)
        ELSE IF raw.num < 0 THEN Rat(0, 1)
        ELSE IF raw.num > 100 * raw.den THEN Rat(100, 1)
        ELSE raw

\* C6: getProgress is computed from the current amount getCurrentAmount reports,
\* also when the recorded balance is 0 or missing.
C6_ProgressFromCurrentAmount ==
    \A goal \in Goals : RatEq(getProgress(goal), expectedProgress(goal))

\* C7: getRemainingAmount is max(0, target_amount - current amount): never
\* negative, and 0 when the current amount is at least target_amount.
C7_RemainingIsFlooredDifference ==
    \A goal \in Goals :
        LET c == getCurrentAmount(goal)
            r == getRemainingAmount(goal)
        IN  /\ r >= 0
            /\ c >= goal.target_amount => r = 0
            /\ c < goal.target_amount => r = goal.target_amount - c

\* An over-funded goal: its current amount is above its target.
C7_Witness ==
    \E goal \in Goals :
        /\ goal.id \in DOMAIN goalBalances
        /\ getCurrentAmount(goal) > goal.target_amount
        /\ getRemainingAmount(goal) = 0

C9_NullWithoutTargetDate ==
    \A goal \in Goals :
        /\ goal.target_date = None =>
            /\ getDaysRemaining(goal) = None
            /\ getMonthlyNeeded(goal) = None
            /\ isOnTrack(goal) = None
        /\ goal.target_date # None =>
            /\ getDaysRemaining(goal) # None
            /\ isOnTrack(goal) # None
            /\ isOnTrack(goal)[1] \in BOOLEAN

\* A goal past its target date: days remaining negative, isOnTrack a boolean.
C9_Witness ==
    \E goal \in Goals :
        /\ goal.target_date # None
        /\ getDaysRemaining(goal)[1] < 0
        /\ isOnTrack(goal) # None

\* C10: for a goal with target_date, getMonthlyNeeded is null exactly when
\* getDaysRemaining <= 0, and otherwise is remaining / (days / 30): never
\* negative, and 0 when the current amount is at least target_amount.
C10_MonthlyNeeded ==
    \A goal \in Goals :
        goal.target_date # None =>
            LET days == getDaysRemaining(goal)[1]
                monthly == getMonthlyNeeded(goal)
            IN  /\ monthly = None <=> days <= 0
                /\ monthly # None =>
                    /\ monthly[1].den > 0
                    /\ monthly[1].num * days =
                           getRemainingAmount(goal) * DaysPerMonth * monthly[1].den
                    /\ monthly[1].num >= 0
                    /\ getCurrentAmount(goal) >= goal.target_amount => monthly[1].num = 0

\* A goal with days left and an amount remaining: a positive monthly need.
C10_Witness ==
    \E goal \in Goals :
        /\ goal.target_date # None
        /\ getDaysRemaining(goal)[1] > 0
        /\ getRemainingAmount(goal) > 0
        /\ getMonthlyNeeded(goal) # None
        /\ getMonthlyNeeded(goal)[1].num > 0

\* target_date - created_at of a goal with a target date, in ticks
totalTicks(goal) == goal.target_date[1] - goal.created_at

\* progress >= (totalDays - days) / totalDays * 100 - 5 for a window of total
\* ticks (total # 0), cross-multiplied: total / DayLength is totalDays
paceMet(progress, total, days) ==
    LET lhs == progress.num * total
        rhs == ((total - days * DayLength) * 100 - Tolerance * total) * progress.den
    IN  IF total > 0 THEN lhs >= rhs ELSE lhs <= rhs

\* C11: for a goal with target_date and totalDays # 0, isOnTrack is true exactly
\* when getProgress >= (totalDays - daysRemaining) / totalDays * 100 - 5; with
\* totalDays = 90 and daysRemaining = 30 a progress of 40 is not on track, and
\* one of 62 is (the bound is 61.67).
C11_OnTrackFormula ==
    /\ \A goal \in Goals :
        (goal.target_date # None /\ totalTicks(goal) # 0) =>
            isOnTrack(goal) =
                Some(paceMet(getProgress(goal), totalTicks(goal), getDaysRemaining(goal)[1]))
    /\ ~GreaterEq(Rat(40, 1), expectedLessTolerance(90 * DayLength, 30))
    /\ GreaterEq(Rat(62, 1), expectedLessTolerance(90 * DayLength, 30))

\* A goal with a window of non-zero length that is behind its pace.
C11_Witness ==
    \E goal \in Goals :
        /\ goal.target_date # None
        /\ totalTicks(goal) > 0
        /\ getDaysRemaining(goal)[1] = 0
        /\ getProgress(goal) = Rat(0, 1)
        /\ isOnTrack(goal) = Some(FALSE)

\* C12: for a goal whose target_date equals created_at (totalDays = 0), isOnTrack
\* never divides by the zero totalDays: the expected progress it compares with is
\* a finite number, never NaN or an infinity.
C12_ZeroWindowHandled ==
    \A goal \in Goals :
        (goal.target_date # None /\ totalTicks(goal) = 0) =>
            expectedLessTolerance(totalTicks(goal), getDaysRemaining(goal)[1]).kind = "finite"

\* The sum, over the goals from position i on that are not completed, of
\* current amount - starting_balance, and of target_amount - starting_balance
RECURSIVE savedFrom(_)
savedFrom(i) ==
    IF i > Len(goals) THEN 0
    ELSE (IF goals[i].completed THEN 0
          ELSE getCurrentAmount(goals[i]) - goals[i].starting_balance) + savedFrom(i + 1)

RECURSIVE targetFrom(_)
targetFrom(i) ==
    IF i > Len(goals) THEN 0
    ELSE (IF goals[i].completed THEN 0
          ELSE goals[i].target_amount - goals[i].starting_balance) + targetFrom(i + 1)

\* The ids of the goals in gs, and the goal of gs with an id
idsOf(gs) == { gs[i].id : i \in 1..Len(gs) }
goalWithId(gs, id) == gs[CHOOSE i \in 1..Len(gs) : gs[i].id = id]

\* The step replaces goals by the same goals with only the completed flag (and
\* completed_at) of the goal id changed, and leaves goalBalances alone.
completedFlipped(id) ==
    /\ idsOf(goals') = idsOf(goals) /\ Len(goals') = Len(goals)
    /\ goalBalances' = goalBalances
    /\ goalWithId(goals', id).completed # goalWithId(goals, id).completed
    /\ \A k \in idsOf(goals) :
        [goalWithId(goals', k) EXCEPT !.completed = FALSE, !.completed_at = None]
            = [goalWithId(goals, k) EXCEPT !.completed = FALSE, !.completed_at = None]
    /\ \A k \in idsOf(goals) \ {id} :
        goalWithId(goals', k).completed = goalWithId(goals, k).completed

\* C13: totalSaved is the unclamped sum over the goals with completed = false of
\* current amount - starting_balance, totalTarget the sum over the same goals of
\* target_amount - starting_balance; a step that marks one goal complete takes
\* exactly that goal's terms out of the totals, and one that reopens it puts them in.
C13_TotalsOverActiveGoals ==
    /\ [](totalSaved = savedFrom(1) /\ totalTarget = targetFrom(1))
    /\ [][\A id \in idsOf(goals) :
            completedFlipped(id) =>
                LET g == goalWithId(goals, id)
                    sign == IF g.completed THEN 1 ELSE -1
                IN  /\ totalSaved' = totalSaved
                                     + sign * (getCurrentAmount(g) - g.starting_balance)
                    /\ totalTarget' = totalTarget
                                      + sign * (g.target_amount - g.starting_balance)]_vars

\* Two goals, one completed with terms other than 0, one active, and a negative
\* totalTarget.
C13_Witness ==
    /\ Len(goals) = 2
    /\ \E i, j \in 1..2 :
        /\ goals[i].completed /\ ~goals[j].completed
        /\ goals[i].target_amount - goals[i].starting_balance > 0
        /\ getCurrentAmount(goals[i]) - goals[i].starting_balance # 0
    /\ totalTarget < 0
    /\ totalSaved = 0

\* What the resolver gives a goal from the goal and the accounts alone
resolved(goal, accts) ==
    IF goal.allocations = None \/ goal.allocations = Some(<< >>)
    THEN goal.starting_balance
    ELSE expectedSum(goal.allocations[1], accts)

\* The Map from the id of each goal of gs to its resolved value
resolvedMap(gs, accts) == [id \in idsOf(gs) |-> resolved(goalWithId(gs, id), accts)]

\* C14: calculateBalances leaves in goalBalances a function of goals and accounts
\* alone, whatever goalBalances held before, whatever happened earlier and
\* whatever the date; run again on the same goals and accounts it changes nothing.
C14_ResolverDeterministic ==
    /\ [](fresh => goalBalances = resolvedMap(goals, accounts))
    /\ [][(task.op # "idle" /\ task.pc = "calculateBalances" /\ task' # task) =>
            /\ goalBalances' = resolvedMap(goals, accounts)
            /\ goalBalances = resolvedMap(goals, accounts) => goalBalances' = goalBalances]_vars

\* calculateBalances has run, at a later date, on an empty list of goals while
\* goalBalances still held the entry of a goal since deleted.
C14_Witness ==
    /\ fresh
    /\ goals = << >> /\ goalBalances = << >>
    /\ nextId > 0
    /\ now > 0

\* C15: a row's completed flag goes from false to true only in markComplete's
\* UPDATE, and markComplete starts only from an active goal of the view whose
\* getProgress is at least 100 at the click; a new row has completed = false; the
\* view's goals take a completed flag only from a load of such a row; and
\* reopenGoal's UPDATE leaves the row with completed = false.
C15_CompletedLifecycle ==
    [][/\ \A id \in DOMAIN table' :
            IF id \notin DOMAIN table
            THEN ~table'[id].completed /\ task.op = "createGoal"
            ELSE (~table[id].completed /\ table'[id].completed) =>
                     (task.op = "markComplete" /\ task.pc = "execute" /\ task.id = id)
       /\ (task = Idle /\ task'.op = "markComplete") =>
            \E goal \in Goals :
                /\ goal.id = task'.id
                /\ ~goal.completed
                /\ RatLeq(Rat(100, 1), getProgress(goal))
       /\ \A id \in idsOf(goals') :
            (/\ goalWithId(goals', id).completed
             /\ id \in idsOf(goals) => ~goalWithId(goals, id).completed) =>
                (task.op # "idle" /\ task.pc = "load"
                 /\ id \in DOMAIN table /\ table[id].completed)
       /\ (task.op = "reopenGoal" /\ task.pc = "execute" /\ task' # Idle) =>
            (task.id \in DOMAIN table' /\ ~table'[task.id].completed)]_vars

\* reopenGoal's UPDATE has run on a completed goal: no row is completed, and the
\* view, not yet reloaded, still holds the goal as completed.
C15_Witness ==
    /\ task.op = "reopenGoal" /\ task.pc = "load"
    /\ \E goal \in Goals :
        /\ goal.completed
        /\ goal.id \in DOMAIN table
        /\ ~table[goal.id].completed

\* C16: whenever no operation is running, the keys of goalBalances are exactly
\* the ids of the goals in goals.
C16_BalancesKeyedByGoals ==
    task = Idle => DOMAIN goalBalances = idsOf(goals)

\* C17: when initialize runs have overlapped at their awaits in any order and all
\* have finished, every goal in goals has an entry in goalBalances equal to the
\* resolver's value on the goals and accounts the view then holds.
C17_OverlappingInitialize ==
    (task = Idle /\ background = << >>) =>
        \A goal \in Goals :
            /\ goal.id \in DOMAIN goalBalances
            /\ goalBalances[goal.id] = resolved(goal, accounts)

\* All runs have finished, and the accounts the view holds are not those of the
\* ledger: the accounts query of an earlier run was answered before the ledger
\* changed and its result was assigned last. A goal with rules has a balance.
C17_Witness ==
    /\ task = Idle /\ background = << >>
    /\ accounts # accountsOf(selectAccounts(ledger))
    /\ \E goal \in Goals :
        /\ hasAllocations(goal)
        /\ goalBalances[goal.id] # 0
        /\ goalBalances[goal.id] = resolved(goal, accounts)

\* C18: once deleteGoal has removed a goal and every operation has finished, the
\* view holds no goal whose row is not in the table: a deleted goal does not
\* come back into goals through a load that was in flight during the delete.
C18_DeletedStaysDeleted ==
    (task = Idle /\ background = << >>) =>
        \A goal \in Goals : goal.id \in DOMAIN table

\* C19: the step that ends a successful createGoal (its calculateBalances, on the
\* accounts the starting balance was computed from) leaves the new goal with a
\* recorded balance equal to its starting_balance, which is the resolver's value
\* of its rules (0 without rules), so it adds 0 to totalSaved, and its progress is
\* 0 whenever target_amount > starting_balance.
C19_NewGoalStartsAtZero ==
    [][(task.op = "createGoal" /\ task.pc = "calculateBalances" /\ nextId \in idsOf(goals)) =>
            LET goal == goalWithId(goals, nextId)
            IN  /\ goal.starting_balance = resolved([goal EXCEPT !.starting_balance = 0], accounts)
                /\ goalBalances'[goal.id] = goal.starting_balance
                /\ getCurrentAmount(goal)' - goal.starting_balance = 0
                /\ goal.target_amount > goal.starting_balance =>
                       getProgress(goal)' = Rat(0, 1)]_vars

\* C20: while the add-goal form has an empty name or a target amount of 0, no
\* step starts createGoal's INSERT or changes the table, and the step that shows
\* the error toast changes nothing else: goals, goalBalances, the open modal and
\* the form fields are as before.
C20_RejectedCreateChangesNothing ==
    [][(task = Idle /\ showAddGoal /\ (form.name = "" \/ form.target_amount = 0)) =>
            /\ task'.op # "createGoal"
            /\ table' = table /\ nextId' = nextId
            /\ toast' = Some("error") =>
                /\ UNCHANGED <<goals, accounts, goalBalances, showAddGoal, form, editingGoal>>
                /\ UNCHANGED <<loading, error, task>>]_vars

\* createGoal has just been rejected for a target amount of 0: the error toast is
\* shown, the modal is open and the form still holds the name and the rules.
C20_Witness ==
    /\ toast = Some("error")
    /\ showAddGoal
    /\ form.name # "" /\ form.target_amount = 0 /\ form.allocations # << >>
    /\ task = Idle

\* C21: the UPDATE of updateGoal keeps every row of the table, leaves the rows of
\* the other goals as they were, and in the row of the edited goal leaves
\* starting_balance, completed, completed_at and created_at as they were,
\* whatever became of the allocation rules.
C21_UpdateKeepsOtherColumns ==
    [][(task.op = "updateGoal" /\ task.pc = "execute") =>
            /\ DOMAIN table' = DOMAIN table
            /\ \A k \in DOMAIN table :
                IF k = task.id
                THEN /\ table'[k].id = table[k].id
                     /\ table'[k].starting_balance = table[k].starting_balance
                     /\ table'[k].completed = table[k].completed
                     /\ table'[k].completed_at = table[k].completed_at
                     /\ table'[k].created_at = table[k].created_at
                ELSE table'[k] = table[k]]_vars

\* updateGoal has just stored a goal whose rules were all removed, next to another
\* goal; the edited goal was created with a starting balance.
C21_Witness ==
    /\ task.op = "updateGoal" /\ task.pc # "execute"
    /\ toast = Some("success")
    /\ Cardinality(DOMAIN table) = 2
    /\ \E k \in DOMAIN table :
        /\ table[k].allocations = Some(<< >>)
        /\ table[k].starting_balance > 0

\* C22: in every state, each row of the goals table has completed = TRUE exactly
\* when its completed_at is not NULL, and so has each goal the view has loaded.
C22_CompletedIffCompletedAt ==
    /\ \A k \in DOMAIN table : table[k].completed <=> (table[k].completed_at # None)
    /\ \A goal \in Goals : goal.completed <=> (goal.completed_at # None)

\* reopenGoal's UPDATE has run on a goal that had been marked complete.
C22_Witness ==
    /\ task.op = "reopenGoal" /\ task.pc # "execute"
    /\ \E k \in DOMAIN table : ~table[k].completed /\ table[k].completed_at = None

\* The handler runs in flight: the one in the foreground and those waiting
runsInFlight == { task } \cup { background[i] : i \in 1..Len(background) }

\* C23: whenever an initialize run has started and has not finished, loading is
\* TRUE.
C23_LoadingCoversEveryRun ==
    (\E run \in runsInFlight : run.op = "initialize") => loading

\* C24: an edit made in an editor that has just been opened (goals untouched since
\* the last load) leaves goals and goalBalances as they were before it was
\* opened, and Cancel changes neither; so after open, edit, Cancel the goal in
\* goals and what the view derives from it are what they were before.
C24_CancelDiscardsEdit ==
    [][(task = Idle /\ editingGoal # None) =>
            IF editingGoal' = None
            THEN UNCHANGED <<goals, accounts, goalBalances>>
            ELSE fresh => UNCHANGED <<goals, accounts, goalBalances>>]_vars

====
